---------------------------- MODULE Spec2Model ----------------------------
(***************************************************************************)
(* A model of the Kroki MCP server (src/src/index.ts): the two tools        *)
(* generate_diagram_url and download_diagram, the request they send to      *)
(* kroki.io, the classification of the response, the SVG scale step and     *)
(* the file write.                                                          *)
(*                                                                          *)
(* Text is modelled character by character: a JavaScript string or a        *)
(* Buffer is a sequence of one-character strings.  A byte that is not       *)
(* valid UTF-8 is written "x89", "xFF", ...; the replacement character      *)
(* U+FFFD is written "uFFFD".  Paths and header values are sequences of     *)
(* lexemes (see the path section).                                          *)
(***************************************************************************)
EXTENDS Integers, Sequences, FiniteSets, TLC

VARIABLES
    calls,   \* invocation id -> the state of that CallTool handler run
    files,   \* the filesystem: path -> file content, or NoFile
    dirs     \* the filesystem: the set of directories that exist

vars == <<calls, files, dirs>>

(***************************************************************************)
(* JavaScript's undefined (an optional argument left out, a missing header) *)
(***************************************************************************)
Undefined == "undefined"

\* what the file system holds at a path
NoFile == [exists |-> FALSE]

File(data) == [exists |-> TRUE, data |-> data]

(***************************************************************************)
(* Sequence helpers (String.prototype methods on character sequences)       *)
(***************************************************************************)
Min(S) == CHOOSE x \in S : \A y \in S : x <= y

\* s.substring(i-1, j): the characters i..j of s (1-based, j clipped)
Slice(s, i, j) == IF i > j THEN <<>> ELSE SubSeq(s, i, IF j > Len(s) THEN Len(s) ELSE j)

\* does p occur in s at position i
MatchesAt(s, p, i) ==
    /\ i >= 1
    /\ i + Len(p) - 1 <= Len(s)
    /\ \A k \in 1..Len(p) : s[i + k - 1] = p[k]

\* s.indexOf(p, from-1) + 1: the first position >= from where p occurs, 0 if none
IndexOf(s, p, from) ==
    LET hits == {i \in from..(Len(s) - Len(p) + 1) : MatchesAt(s, p, i)}
    IN  IF hits = {} THEN 0 ELSE Min(hits)

\* s.startsWith(p)
StartsWith(s, p) == MatchesAt(s, p, 1)

\* s.includes(p)
Includes(s, p) == IndexOf(s, p, 1) # 0

\* s.replace(p, r) with a string pattern: the first occurrence only
ReplaceFirst(s, p, r) ==
    LET i == IndexOf(s, p, 1)
    IN  IF i = 0 THEN s
        ELSE Slice(s, 1, i - 1) \o r \o Slice(s, i + Len(p), Len(s))

\* s.replace(/p/g, r) for a literal, non-empty p: every occurrence, left to right
RECURSIVE ReplaceAllFrom(_, _, _, _)
ReplaceAllFrom(s, p, r, from) ==
    LET i == IndexOf(s, p, from)
    IN  IF i = 0 THEN Slice(s, from, Len(s))
        ELSE Slice(s, from, i - 1) \o r \o ReplaceAllFrom(s, p, r, i + Len(p))

ReplaceAll(s, p, r) == ReplaceAllFrom(s, p, r, 1)

\* the white space of String.prototype.trim and of the regular expression \s
IsSpace(c) == c \in {" ", "\n", "\t", "\r"}

\* s.trim()
Trim(s) ==
    LET keep == {i \in 1..Len(s) : ~IsSpace(s[i])}
    IN  IF keep = {} THEN <<>>
        ELSE Slice(s, Min(keep), CHOOSE i \in keep : \A j \in keep : j <= i)

UpperLetters ==
    <<"A", "B", "C", "D", "E", "F", "G", "H", "I", "J", "K", "L", "M",
      "N", "O", "P", "Q", "R", "S", "T", "U", "V", "W", "X", "Y", "Z">>

LowerLetters ==
    <<"a", "b", "c", "d", "e", "f", "g", "h", "i", "j", "k", "l", "m",
      "n", "o", "p", "q", "r", "s", "t", "u", "v", "w", "x", "y", "z">>

\* one character in lower case (the /i flag, toLowerCase)
LowerChar(c) ==
    IF \E k \in 1..26 : UpperLetters[k] = c
    THEN LowerLetters[CHOOSE k \in 1..26 : UpperLetters[k] = c]
    ELSE c

ToLowerCase(s) == [k \in 1..Len(s) |-> LowerChar(s[k])]


(***************************************************************************)
(* Errors.  An McpError carries its code and its message; thrownAt is the   *)
(* line of index.ts whose throw statement created it.  A message is the     *)
(* sequence of its pieces: the fixed texts of the template literal, each    *)
(* one string, and the characters of the values spliced in.                *)
(***************************************************************************)
McpError(code, message, line) ==
    [mcp |-> TRUE, code |-> code, message |-> message, thrownAt |-> line]

\* an error that is not an McpError (a Node.js or axios Error)
JsError(message) == [mcp |-> FALSE, message |-> message]

\* what a function produced: a value it returned or an error it threw
Returned(v) == [threw |-> FALSE, value |-> v]

Threw(e) == [threw |-> TRUE, error |-> e]

\* xs.join(sep) of a list of strings, as message pieces
RECURSIVE Join(_, _)
Join(xs, sep) ==
    IF xs = <<>> THEN <<>>
    ELSE IF Len(xs) = 1 THEN <<xs[1]>>
    ELSE <<xs[1], sep>> \o Join(Tail(xs), sep)

(***************************************************************************)
(* Validation                                                               *)
(***************************************************************************)
KROKI_BASE_URL == "https://kroki.io"

validTypes ==
    <<"mermaid", "plantuml", "graphviz", "c4plantuml",
      "excalidraw", "erd", "svgbob", "nomnoml", "wavedrom",
      "blockdiag", "seqdiag", "actdiag", "nwdiag", "packetdiag",
      "rackdiag", "umlet", "ditaa", "vega", "vegalite">>

validFormats == <<"svg", "png", "pdf", "jpeg", "base64">>

\* Array.prototype.includes
ArrayIncludes(xs, x) == \E k \in 1..Len(xs) : xs[k] = x

validateDiagramType(type) ==
    IF ~ArrayIncludes(validTypes, type)
    THEN Threw(McpError("InvalidParams",
                <<"Invalid diagram type. Must be one of: ">> \o Join(validTypes, ", "), 60))
    ELSE Returned(Undefined)

\* a faulty validateOutputFormat: the check is left out
validateOutputFormat_AcceptsAll(format) == Returned(Undefined)

validateOutputFormat(format) ==
    IF ~ArrayIncludes(validFormats, format)
    THEN Threw(McpError("InvalidParams",
                <<"Invalid output format. Must be one of: ">> \o Join(validFormats, ", "), 71))
    ELSE Returned(Undefined)

\* a || b for strings: undefined and the empty string are falsy
OrElse(a, b) == IF a = Undefined \/ a = "" THEN b ELSE a

(***************************************************************************)
(* The content encoder: pako.deflate, base64, then + -> - and / -> _.       *)
(* pako.deflate is the zlib stream of the content at the default level; the *)
(* table holds the streams of the diagram sources the model draws from.     *)
(***************************************************************************)
Contents == {"graph TD; A-->D;", "Bob->Alice: hello"}

pako_deflate(content) ==
    CASE content = "graph TD; A-->D;" ->
           <<120, 156, 75, 47, 74, 44, 200, 80, 8, 113, 177, 86, 112, 212, 213,
             181, 115, 177, 6, 0, 43, 104, 4, 126>>
      [] content = "Bob->Alice: hello" ->
           <<120, 156, 115, 202, 79, 210, 181, 115, 204, 201, 76, 78, 181, 82,
             200, 72, 205, 201, 201, 7, 0, 49, 167, 5, 203>>

Base64Alphabet ==
    UpperLetters \o LowerLetters \o
    <<"0", "1", "2", "3", "4", "5", "6", "7", "8", "9", "+", "/">>

\* Buffer.prototype.toString('base64') from byte i on
RECURSIVE Base64From(_, _)
Base64From(b, i) ==
    IF i > Len(b) THEN <<>>
    ELSE LET n  == Len(b) - i + 1
             b1 == b[i]
             b2 == IF n >= 2 THEN b[i + 1] ELSE 0
             b3 == IF n >= 3 THEN b[i + 2] ELSE 0
         IN  << Base64Alphabet[(b1 \div 4) + 1],
                Base64Alphabet[((b1 % 4) * 16 + (b2 \div 16)) + 1],
                IF n >= 2 THEN Base64Alphabet[((b2 % 16) * 4 + (b3 \div 64)) + 1] ELSE "=",
                IF n >= 3 THEN Base64Alphabet[(b3 % 64) + 1] ELSE "=" >>
             \o Base64From(b, i + 3)

ToBase64(b) == Base64From(b, 1)

\* getDiagramData: const encodedContent = ...
getDiagramData_encodedContent(content) ==
    ReplaceAll(ReplaceAll(ToBase64(pako_deflate(content)), <<"+">>, <<"-">>), <<"/">>, <<"_">>)

\* a faulty copy of the encoder: "/" is not replaced
generateDiagramUrl_encodedContent_PlusOnly(content) ==
    ReplaceAll(ToBase64(pako_deflate(content)), <<"+">>, <<"-">>)

\* generateDiagramUrl: const encodedContent = ...
generateDiagramUrl_encodedContent(content) ==
    ReplaceAll(ReplaceAll(ToBase64(pako_deflate(content)), <<"+">>, <<"-">>), <<"/">>, <<"_">>)

\* `${KROKI_BASE_URL}/${type}/${outputFormat}/${encodedContent}`
KrokiUrl(type, outputFormat, encodedContent) ==
    <<KROKI_BASE_URL, "/", type, "/", outputFormat, "/">> \o encodedContent

\* the segments of a URL built by KrokiUrl
UrlFormat(url) == url[5]

UrlToken(url) == Slice(url, 7, Len(url))

(***************************************************************************)
(* Paths.  A path is the sequence of its lexemes: "/" , "." and the runs of *)
(* other characters between them; "/tmp/out.svg" is                         *)
(* <<"/", "tmp", "/", "out", ".", "svg">>.                                  *)
(***************************************************************************)
LastIndexOf(s, x) ==
    LET hits == {i \in 1..Len(s) : s[i] = x}
    IN  IF hits = {} THEN 0 ELSE CHOOSE i \in hits : \A j \in hits : j <= i

\* path.basename(p)
Basename(p) == Slice(p, LastIndexOf(p, "/") + 1, Len(p))

\* path.extname(p): from the last dot of the last portion on; empty when there
\* is no dot, or when the only dot is the portion's first character
extname(p) ==
    LET base == Basename(p)
        dot  == LastIndexOf(base, ".")
    IN  IF dot <= 1 \/ base = <<".", ".">> THEN <<>>
        ELSE Slice(base, dot, Len(base))

\* String.prototype.slice(1) of an extension, as a string
ExtSlice1(ext) == IF Len(ext) <= 1 THEN "" ELSE ext[2]

\* path.dirname(p)
dirname(p) ==
    LET slash == LastIndexOf(p, "/")
    IN  IF slash = 0 THEN <<".">>
        ELSE IF slash = 1 THEN <<"/">>
        ELSE Slice(p, 1, slash - 1)

\* the directories fs.mkdir(d, {recursive: true}) makes sure exist
WithParents(d) ==
    {d} \cup {IF k = 1 THEN <<"/">> ELSE Slice(d, 1, k - 1) :
                k \in {j \in 1..Len(d) : d[j] = "/"}}

(***************************************************************************)
(* Buffers and strings.  Buffer.prototype.toString('utf-8') turns every     *)
(* byte that is not valid UTF-8 into U+FFFD; Buffer.from(s, 'utf-8') writes *)
(* U+FFFD as the three bytes EF BF BD.                                      *)
(***************************************************************************)
InvalidUtf8Bytes == {"x89", "xFF"}

Utf8Decode(bytes) ==
    [k \in 1..Len(bytes) |-> IF bytes[k] \in InvalidUtf8Bytes THEN "uFFFD" ELSE bytes[k]]

RECURSIVE Utf8Encode(_)
Utf8Encode(str) ==
    IF str = <<>> THEN <<>>
    ELSE (IF Head(str) = "uFFFD" THEN <<"xEF", "xBF", "xBD">> ELSE <<Head(str)>>)
         \o Utf8Encode(Tail(str))

\* data.toString('utf-8', 0, n)
ToStringPrefix(data, n) == Utf8Decode(Slice(data, 1, n))

(***************************************************************************)
(* Regular expressions of getDiagramData, each as the match it computes.    *)
(* A match is [found, start, stop, group]: the matched characters are       *)
(* start..stop, group is the captured text.                                 *)
(***************************************************************************)
NoMatch == [found |-> FALSE, start |-> 0, stop |-> 0, group |-> <<>>]

Match(i, j, g) == [found |-> TRUE, start |-> i, stop |-> j, group |-> g]

\* /<open>([\s\S]*?)<close>/i : the first <open> that has a <close> after it,
\* capturing lazily up to the first <close>
LazyElementMatch(str, open, close) ==
    LET low  == ToLowerCase(str)
        i    == IndexOf(low, open, 1)
        e    == IF i = 0 THEN 0 ELSE IndexOf(low, close, i + Len(open))
    IN  IF i = 0 \/ e = 0 THEN NoMatch
        ELSE Match(i, e + Len(close) - 1, Slice(str, i + Len(open), e - 1))

\* the line terminators the regular expression dot does not match
IsLineTerminator(c) == c \in {"\n", "\r"}

\* /<title>(.*?)<\/title>/i : as above, but the captured text may not hold a
\* line terminator
titleMatch(htmlContent) ==
    LET low   == ToLowerCase(htmlContent)
        open  == <<"<", "t", "i", "t", "l", "e", ">">>
        close == <<"<", "/", "t", "i", "t", "l", "e", ">">>
        ok(i) == /\ MatchesAt(low, open, i)
                 /\ LET e == IndexOf(low, close, i + Len(open))
                    IN  /\ e # 0
                        /\ \A k \in (i + Len(open))..(e - 1) : ~IsLineTerminator(htmlContent[k])
        hits  == {i \in 1..Len(low) : ok(i)}
    IN  IF hits = {} THEN NoMatch
        ELSE LET i == Min(hits)
                 e == IndexOf(low, close, i + Len(open))
             IN  Match(i, e + Len(close) - 1, Slice(htmlContent, i + Len(open), e - 1))

\* /<body>([\s\S]*?)<\/body>/i
bodyMatch(htmlContent) ==
    LazyElementMatch(htmlContent, <<"<", "b", "o", "d", "y", ">">>, <<"<", "/", "b", "o", "d", "y", ">">>)

\* /<pre>([\s\S]*?)<\/pre>/i
preMatch(body) ==
    LazyElementMatch(body, <<"<", "p", "r", "e", ">">>, <<"<", "/", "p", "r", "e", ">">>)

\* /unable to decode/i.test(body)
TestUnableToDecode(body) ==
    Includes(ToLowerCase(body), <<"u", "n", "a", "b", "l", "e", " ", "t", "o", " ", "d", "e", "c", "o", "d", "e">>)

\* body.replace(/<[^>]+>/g, ' ') from position i on: the text up to the next
\* tag is kept, the tag becomes one blank
RECURSIVE StripTagsFrom(_, _)
StripTagsFrom(str, i) ==
    IF i > Len(str) THEN <<>>
    ELSE LET open  == IndexOf(str, <<"<">>, i)
             close == IF open = 0 THEN 0 ELSE IndexOf(str, <<">">>, open + 1)
         IN  IF open = 0 THEN Slice(str, i, Len(str))
             ELSE IF close > open + 1
                  THEN Slice(str, i, open - 1) \o <<" ">> \o StripTagsFrom(str, close + 1)
                  ELSE Slice(str, i, open) \o StripTagsFrom(str, open + 1)

\* str.replace(/\s+/g, ' '): the text up to the next run of white space is
\* kept, the run becomes one blank
RECURSIVE CollapseSpaces(_)
CollapseSpaces(str) ==
    LET spaces == {k \in 1..Len(str) : IsSpace(str[k])}
        first  == Min(spaces)
        after  == Min({k \in first..(Len(str) + 1) : k = Len(str) + 1 \/ ~IsSpace(str[k])})
    IN  IF spaces = {} THEN str
        ELSE Slice(str, 1, first - 1) \o <<" ">>
             \o CollapseSpaces(Slice(str, after, Len(str)))

\* bodyMatch[1].replace(/<[^>]+>/g, ' ').replace(/\s+/g, ' ').trim()
plainBody(body) == Trim(CollapseSpaces(StripTagsFrom(body, 1)))

(***************************************************************************)
(* The inline error marker of an SVG:                                       *)
(* /<text[^>]*class="error"[^>]*>([\s\S]*?)<\/text>                         *)
(*  |<text[^>]*fill="red"[^>]*>([\s\S]*?)<\/text>/i                         *)
(***************************************************************************)
TextOpen == <<"<", "t", "e", "x", "t">>

TextClose == <<"<", "/", "t", "e", "x", "t", ">">>

ClassError == <<"c", "l", "a", "s", "s", "=", "\"", "e", "r", "r", "o", "r", "\"">>

FillRed == <<"f", "i", "l", "l", "=", "\"", "r", "e", "d", "\"">>

\* the end of the opening tag that starts at i: the first > after <text
TagEnd(str, i) == IndexOf(str, <<">">>, i + Len(TextOpen))

\* one alternative matches at i: <text, then attr before the first >, then a
\* </text> after it; low is str in lower case (the flag i)
MarkerAt(str, low, attr, i) ==
    /\ MatchesAt(low, TextOpen, i)
    /\ TagEnd(str, i) # 0
    /\ \E j \in (i + Len(TextOpen))..(TagEnd(str, i) - Len(attr)) : MatchesAt(low, attr, j)
    /\ IndexOf(low, TextClose, TagEnd(str, i) + 1) # 0

\* the text captured by an alternative that matches at i
MarkerGroup(str, low, i) ==
    Slice(str, TagEnd(str, i) + 1, IndexOf(low, TextClose, TagEnd(str, i) + 1) - 1)

\* the leftmost match in svgContent, low its lower case; at one position the
\* class="error" alternative is tried first
MarkerMatch(svgContent, low) ==
    LET hits == {i \in 1..Len(svgContent) :
                    MarkerAt(svgContent, low, ClassError, i)
                    \/ MarkerAt(svgContent, low, FillRed, i)}
    IN  IF hits = {} THEN NoMatch
        ELSE Match(Min(hits),
                   IndexOf(low, TextClose, TagEnd(svgContent, Min(hits)) + 1)
                     + Len(TextClose) - 1,
                   MarkerGroup(svgContent, low, Min(hits)))

\* svgContent.match(...)
errorTextMatch(svgContent) == MarkerMatch(svgContent, ToLowerCase(svgContent))

UnknownDiagramError == <<"U", "n", "k", "n", "o", "w", "n", " ", "d", "i", "a", "g", "r", "a", "m", " ", "e", "r", "r", "o", "r">>

\* a faulty rawErrorMessage: .trim() is left out
rawErrorMessage_Untrimmed(m) ==
    IF m.group = <<>> THEN UnknownDiagramError ELSE m.group

\* (errorTextMatch[1] || errorTextMatch[2] || 'Unknown diagram error').trim()
rawErrorMessage(m) ==
    Trim(IF m.group = <<>> THEN UnknownDiagramError ELSE m.group)

\* .replace(/&lt;/g, '<').replace(/&gt;/g, '>').replace(/&amp;/g, '&').replace(/<br\/>/g, '\n')
decodedErrorMessage(raw) ==
    ReplaceAll(
      ReplaceAll(
        ReplaceAll(
          ReplaceAll(raw, <<"&", "l", "t", ";">>, <<"<">>),
          <<"&", "g", "t", ";">>, <<">">>),
        <<"&", "a", "m", "p", ";">>, <<"&">>),
      <<"<", "b", "r", "/", ">">>, <<"\n">>)

(***************************************************************************)
(* Numbers.  A JavaScript number is a record: a finite number holds its     *)
(* value in thousandths (1.0 is milli = 1000), NaN and a number argument    *)
(* left out (undefined) are records of their own kind.  Attribute values    *)
(* of the model have at most three decimals and no exponent.                *)
(***************************************************************************)
NaN == [kind |-> "NaN"]

UndefinedNumber == [kind |-> "undefined"]

Number(milli) == [kind |-> "number", milli |-> milli]

\* the number whole.thousandths
Num(whole, thousandths) == Number(whole * 1000 + thousandths)

\* a ?? b for a number argument
CoalesceNumber(a, b) == IF a.kind = "undefined" THEN b ELSE a

\* a > b; a comparison with NaN is false
GreaterThan(a, b) == a.kind = "number" /\ b.kind = "number" /\ a.milli > b.milli

Digits == <<"0", "1", "2", "3", "4", "5", "6", "7", "8", "9">>

IsDigit(c) == \E k \in 1..10 : Digits[k] = c

DigitValue(c) == (CHOOSE k \in 1..10 : Digits[k] = c) - 1

RECURSIVE DigitsToNat(_)
DigitsToNat(ds) ==
    IF ds = <<>> THEN 0
    ELSE DigitsToNat(Slice(ds, 1, Len(ds) - 1)) * 10 + DigitValue(ds[Len(ds)])

RECURSIVE NatToChars(_)
NatToChars(n) ==
    IF n < 10 THEN <<Digits[n + 1]>>
    ELSE NatToChars(n \div 10) \o <<Digits[(n % 10) + 1]>>

\* the last position of the run of digits that starts at p (p - 1 when empty)
DigitRunEnd(str, p) ==
    LET stops == {q \in p..(Len(str) + 1) : q = Len(str) + 1 \/ ~IsDigit(str[q])}
    IN  Min(stops) - 1

\* str with its leading white space removed
TrimStart(str) ==
    LET nonSpace == {i \in 1..Len(str) : ~IsSpace(str[i])}
    IN  IF nonSpace = {} THEN <<>> ELSE Slice(str, Min(nonSpace), Len(str))

\* the number of the digits whole "." frac, negated when negative
DecimalValue(whole, frac, negative) ==
    IF whole = <<>> /\ frac = <<>> THEN NaN
    ELSE IF negative
         THEN Number(0 - (DigitsToNat(whole) * 1000
                          + DigitsToNat(Slice(frac \o <<"0", "0", "0">>, 1, 3))))
         ELSE Number(DigitsToNat(whole) * 1000
                     + DigitsToNat(Slice(frac \o <<"0", "0", "0">>, 1, 3)))

\* the fraction digits of t, whose whole digits end at intEnd
FractionDigits(t, intEnd) ==
    IF intEnd + 1 <= Len(t) /\ t[intEnd + 1] = "."
    THEN Slice(t, intEnd + 2, DigitRunEnd(t, intEnd + 2))
    ELSE <<>>

\* t read as a decimal literal whose digits start at p0 and whose whole part
\* ends at intEnd
ParseDecimal(t, p0, intEnd) ==
    DecimalValue(Slice(t, p0, intEnd), FractionDigits(t, intEnd), p0 = 2 /\ t[1] = "-")

\* t read as a decimal literal whose digits start at p0 (after the sign)
ParseSigned(t, p0) == ParseDecimal(t, p0, DigitRunEnd(t, p0))

\* t, which has no leading white space, read as a decimal literal
ParseTrimmed(t) ==
    ParseSigned(t, IF t # <<>> /\ t[1] \in {"+", "-"} THEN 2 ELSE 1)

\* parseFloat(str): leading white space, a sign, digits, a dot and digits
parseFloat(str) == ParseTrimmed(TrimStart(str))

isNaN(x) == x.kind = "NaN"

\* (a * b).toFixed(2) of two finite numbers: the product, in millionths,
\* rounded to hundredths
TimesToFixed2(a, b) ==
    LET micro == a.milli * b.milli
        mag   == IF micro < 0 THEN 0 - micro ELSE micro
        n     == (mag + 5000) \div 10000
        cents == n % 100
    IN  (IF micro < 0 THEN <<"-">> ELSE <<>>)
        \o NatToChars(n \div 100) \o <<".">>
        \o <<Digits[(cents \div 10) + 1], Digits[(cents % 10) + 1]>>

(***************************************************************************)
(* The scale step: svgContent.replace(re, callback), re = /<svg( [^>]* )>/  *)
(* (written here with blanks around the group's body)                       *)
(***************************************************************************)
SvgOpen == <<"<", "s", "v", "g">>

\* attributes.match(/<name>="([^"]+)"/), name=" given as its characters
AttrMatch(attributes, nameEq) ==
    LET ok(p) == /\ MatchesAt(attributes, nameEq, p)
                 /\ p + Len(nameEq) <= Len(attributes)
                 /\ attributes[p + Len(nameEq)] # "\""
                 /\ IndexOf(attributes, <<"\"">>, p + Len(nameEq) + 1) # 0
        hits  == {p \in 1..Len(attributes) : ok(p)}
    IN  IF hits = {} THEN NoMatch
        ELSE LET p == Min(hits)
                 q == IndexOf(attributes, <<"\"">>, p + Len(nameEq) + 1)
             IN  Match(p, q, Slice(attributes, p + Len(nameEq), q - 1))

WidthEq == <<"w", "i", "d", "t", "h", "=", "\"">>

HeightEq == <<"h", "e", "i", "g", "h", "t", "=", "\"">>

\* value.replace(/[0-9.]/g, '') || 'px'
UnitOf(value) ==
    LET rest == SelectSeq(value, LAMBDA c : ~IsDigit(c) /\ c # ".")
    IN  IF rest = <<>> THEN <<"p", "x">> ELSE rest

\* the new text of a matched attribute whose value parses as val
ScaledAttr(value, val, nameEq, scale) ==
    nameEq \o TimesToFixed2(val, scale) \o UnitOf(value) \o <<"\"">>

\* newAttrs.replace(matched, ...) when the value of the attribute parsed as val
\* is a number
ReplaceIfNumber(newAttrs, matched, value, val, nameEq, scale) ==
    IF ~isNaN(val)
    THEN ReplaceFirst(newAttrs, matched, ScaledAttr(value, val, nameEq, scale))
    ELSE newAttrs

\* one of the two if-blocks of the callback: rewrite the attribute m matched in
\* the original attributes, inside newAttrs
ScaleAttr(newAttrs, attributes, m, nameEq, scale) ==
    IF m.found /\ m.group # <<>>
    THEN ReplaceIfNumber(newAttrs, Slice(attributes, m.start, m.stop), m.group,
                         parseFloat(m.group), nameEq, scale)
    ELSE newAttrs

\* the callback: the new text of the <svg ...> tag
ScaleCallback(attributes, scale) ==
    SvgOpen
    \o ScaleAttr(ScaleAttr(attributes, attributes, AttrMatch(attributes, WidthEq),
                           WidthEq, scale),
                 attributes, AttrMatch(attributes, HeightEq), HeightEq, scale)
    \o <<">">>

\* the match of re: the first <svg that has a > after it; the group is the
\* text between them
svgTagMatch(svgContent) ==
    LET ok(i) == MatchesAt(svgContent, SvgOpen, i)
                 /\ IndexOf(svgContent, <<">">>, i + Len(SvgOpen)) # 0
        hits  == {i \in 1..Len(svgContent) : ok(i)}
    IN  IF hits = {} THEN NoMatch
        ELSE LET i == Min(hits)
                 k == IndexOf(svgContent, <<">">>, i + Len(SvgOpen))
             IN  Match(i, k, Slice(svgContent, i + Len(SvgOpen), k - 1))

\* svgContent with the match m replaced by what the callback returns
ReplaceMatch(svgContent, m, scale) ==
    IF ~m.found THEN svgContent
    ELSE Slice(svgContent, 1, m.start - 1)
         \o ScaleCallback(m.group, scale)
         \o Slice(svgContent, m.stop + 1, Len(svgContent))

\* svgContent.replace(re, callback)
applyScale(svgContent, scale) == ReplaceMatch(svgContent, svgTagMatch(svgContent), scale)

(***************************************************************************)
(* getDiagramData (lines 79-205), in the pieces its one await separates.    *)
(***************************************************************************)
\* lines 80-82: the validation; the value is the effective outputFormat
getDiagramData_validate(options) ==
    LET outputFormat == OrElse(options.outputFormat, "svg")
    IN  IF validateDiagramType(options.type).threw THEN validateDiagramType(options.type)
        ELSE IF validateOutputFormat(outputFormat).threw THEN validateOutputFormat(outputFormat)
        ELSE Returned(outputFormat)

\* lines 85-90: the URL of the GET
getDiagramData_url(options) ==
    KrokiUrl(options.type, OrElse(options.outputFormat, "svg"),
             getDiagramData_encodedContent(options.content))

\* a faulty validateStatus: every status is accepted
validateStatus_Any(status) == TRUE

\* validateStatus
validateStatus(status) == status >= 200 /\ status < 300

\* response.headers['content-type']?.toLowerCase() || ''
contentTypeOf(response) ==
    IF "content-type" \in DOMAIN response.headers
    THEN ToLowerCase(response.headers["content-type"])
    ELSE <<>>

TextHtml == <<"t", "e", "x", "t", "/", "h", "t", "m", "l">>

HtmlTag == <<"<", "h", "t", "m", "l">>

DoctypeHtml == <<"<", "!", "D", "O", "C", "T", "Y", "P", "E", " ", "h", "t", "m", "l">>

\* a faulty isHtmlErrorPage: only the content type is looked at
isHtmlErrorPage_ContentTypeOnly(contentType, data) ==
    Includes(contentType, TextHtml)

\* line 105: the condition of the HTML error page branch
isHtmlErrorPage(contentType, data) ==
    \/ Includes(contentType, TextHtml)
    \/ StartsWith(Trim(ToStringPrefix(data, 100)), HtmlTag)
    \/ StartsWith(Trim(ToStringPrefix(data, 100)), DoctypeHtml)

UnknownHtmlError == <<"Unknown error (HTML response)">>

DecodeErrorHeadline ==
    <<"Decode error: Kroki could not decode the source. Check the notation and the content.">>

\* lines 113-118: the message of a decode error, pre the match of <pre>
decodeErrorMessage(pre) ==
    IF pre.found /\ Trim(pre.group) # <<>>
    THEN DecodeErrorHeadline \o <<"\nDetails:\n---\n">> \o Trim(pre.group) \o <<"\n---">>
    ELSE DecodeErrorHeadline

\* a faulty otherErrorMessage: a body of any length is appended
otherErrorMessage_AnyLength(first, plain) ==
    IF Len(plain) > 0
    THEN first \o <<" (content: ">> \o plain \o <<"...)">>
    ELSE first

\* lines 121-124: the message of another HTML error, plain the plainBody
otherErrorMessage(first, plain) ==
    IF Len(plain) > 0 /\ Len(plain) < 300
    THEN first \o <<" (content: ">> \o plain \o <<"...)">>
    ELSE first

\* lines 110-125: extractedMessage from the two matches
messageOfMatches(title, body) ==
    IF body.found /\ TestUnableToDecode(body.group)
    THEN decodeErrorMessage(preMatch(body.group))
    ELSE IF body.found
         THEN otherErrorMessage(IF title.found THEN Trim(title.group) ELSE UnknownHtmlError,
                                plainBody(body.group))
         ELSE IF title.found THEN Trim(title.group) ELSE UnknownHtmlError

\* lines 107-125: extractedMessage of the HTML text
messageOfHtml(htmlContent) ==
    messageOfMatches(titleMatch(htmlContent), bodyMatch(htmlContent))

\* lines 107-125: extractedMessage
extractedMessage(data) == messageOfHtml(Utf8Decode(data))

\* a faulty scale step: the output format is not looked at
scaleStep_AnyFormat(data, svgContent, scale, outputFormat) ==
    IF GreaterThan(scale, Num(1, 0))
    THEN Utf8Encode(applyScale(svgContent, scale))
    ELSE data

\* lines 143-173: the scale step; the value is the new data
scaleStep(data, svgContent, scale, outputFormat) ==
    IF GreaterThan(scale, Num(1, 0)) /\ outputFormat = "svg"
    THEN Utf8Encode(applyScale(svgContent, scale))
    ELSE data

\* lines 135-177: after the match m for the inline error marker
afterErrorTextMatch(m, data, svgContent, scale, outputFormat) ==
    IF m.found
    THEN Threw(McpError("InvalidParams",
                 <<"Diagram generation error (in SVG):\n">>
                 \o decodedErrorMessage(rawErrorMessage(m))
                 \o <<"\n\nCheck the diagram source.">>, 139))
    ELSE Returned([data   |-> scaleStep(data, svgContent, scale, outputFormat),
                   format |-> outputFormat])

\* lines 131-177: the SVG branch, svgContent the text of data
svgBranch(data, svgContent, scale, outputFormat) ==
    afterErrorTextMatch(errorTextMatch(svgContent), data, svgContent, scale, outputFormat)

\* lines 99-177: what getDiagramData does with a 2xx response
getDiagramData_onResponse(outputFormat, scaleOption, response) ==
    IF isHtmlErrorPage(contentTypeOf(response), response.data)
    THEN Threw(McpError("InvalidParams",
                 <<"Kroki error: ">> \o extractedMessage(response.data), 126))
    ELSE IF (outputFormat = "svg" \/ outputFormat = "base64") /\ Len(response.data) > 0
    THEN svgBranch(response.data, Utf8Decode(response.data),
                   CoalesceNumber(scaleOption, Num(1, 0)), outputFormat)
    ELSE Returned([data |-> response.data, format |-> outputFormat])

\* a faulty krokiMessage: the length of the body is not looked at
krokiMessageOf_AnyLength(responseText) ==
    IF responseText # <<>> THEN Trim(responseText) ELSE <<>>

\* lines 184-189: krokiMessage
krokiMessageOf(responseText) ==
    IF responseText # <<>> /\ Len(responseText) < 500 THEN Trim(responseText) ELSE <<>>

\* lines 192-196: the error thrown for a status and a krokiMessage
httpError(status, krokiMessage) ==
    IF status = 400
    THEN Threw(McpError("InvalidParams",
                 <<"The diagram source seems to have an error (Kroki HTTP 400).\n">>
                 \o (IF krokiMessage # <<>>
                     THEN <<"Details from Kroki:\n---\n">> \o krokiMessage \o <<"\n---\n">>
                     ELSE <<"Kroki gave no detail on where the error is.\n">>)
                 \o <<"Check the diagram source.">>, 196))
    ELSE Threw(McpError("InternalError",
                 <<"Kroki API request failed (status: ", ToString(status), ")">>
                 \o (IF krokiMessage # <<>>
                     THEN <<"\nMessage from Kroki: ">> \o krokiMessage
                     ELSE <<>>), 196))

\* lines 179-196: the catch block for an axios error that has a response
getDiagramData_onHttpError(response) ==
    httpError(response.status, krokiMessageOf(Utf8Decode(response.data)))

\* lines 200-203: the catch block for an error without a response
getDiagramData_onNetworkError(error) ==
    Threw(McpError("InternalError",
            <<"Failed to fetch diagram from Kroki: ">>
            \o (IF error.message = <<>> THEN <<"Unknown network error">> ELSE error.message),
            200))

\* what getDiagramData does once the GET has settled: reply is a response, or
\* an error without a response
getDiagramData_settle(outputFormat, scaleOption, reply) ==
    IF ~reply.responded THEN getDiagramData_onNetworkError(reply.error)
    ELSE IF validateStatus(reply.response.status)
         THEN getDiagramData_onResponse(outputFormat, scaleOption, reply.response)
         ELSE getDiagramData_onHttpError(reply.response)

(***************************************************************************)
(* generateDiagramUrl (lines 208-224)                                       *)
(***************************************************************************)
\* line 215: the format of the probe request
checkFormat(outputFormat) == IF outputFormat = "base64" THEN "svg" ELSE outputFormat

\* lines 209-216, up to the await: the options handed to getDiagramData, or
\* the validation error
generateDiagramUrl_probe(options) ==
    LET outputFormat == OrElse(options.outputFormat, "svg")
    IN  IF validateDiagramType(options.type).threw THEN validateDiagramType(options.type)
        ELSE IF validateOutputFormat(outputFormat).threw THEN validateOutputFormat(outputFormat)
        ELSE Returned([options EXCEPT !.outputFormat = checkFormat(outputFormat)])

\* lines 219-223: the link returned
generateDiagramUrl_link(options) ==
    KrokiUrl(options.type, OrElse(options.outputFormat, "svg"),
             generateDiagramUrl_encodedContent(options.content))

(***************************************************************************)
(* The CallTool handler (lines 286-376)                                     *)
(***************************************************************************)
UrlCheckedText ==
    "The diagram URL was generated and its content checked. No error was found.\nURL: "

\* lines 299-306: the result of generate_diagram_url
generateResult(url) == Returned(<<UrlCheckedText>> \o url)

\* lines 307-315: the catch block of generate_diagram_url
generateCatch(error) ==
    IF error.mcp THEN Threw(error)
    ELSE Threw(McpError("InternalError",
                 <<"Failed to generate diagram URL: ">>
                 \o (IF error.message = <<>> THEN <<"Unknown error">> ELSE error.message), 311))

\* a faulty determinedFormat: the extension of the path is not looked at
determinedFormat_ExplicitOnly(outputFormat, outputPath) == OrElse(outputFormat, "svg")

\* line 331
determinedFormat(outputFormat, outputPath) ==
    OrElse(OrElse(outputFormat, ExtSlice1(extname(outputPath))), "svg")

\* the text put in front of a download error's message
FailedToDownload(targetPath) == <<"Failed to download diagram to ">> \o targetPath \o <<": ">>

\* a faulty catch block: an McpError is thrown again as it is
downloadCatch_Rethrow(error, targetPath) ==
    IF error.mcp
    THEN Threw(error)
    ELSE Threw(McpError("InternalError",
                 FailedToDownload(targetPath)
                 \o (IF error.message = <<>> THEN <<"Unknown error">> ELSE error.message), 363))

\* lines 356-367: the catch block of download_diagram
downloadCatch(error, targetPath) ==
    IF error.mcp
    THEN Threw([error EXCEPT !.message = FailedToDownload(targetPath) \o error.message])
    ELSE Threw(McpError("InternalError",
                 FailedToDownload(targetPath)
                 \o (IF error.message = <<>> THEN <<"Unknown error">> ELSE error.message), 363))

\* lines 348-355: the result of download_diagram
downloadResult(outputPath) == Returned(<<"Diagram saved to ">> \o outputPath)

\* lines 370-374
unknownTool(name) == Threw(McpError("MethodNotFound", <<"Unknown tool: ", name>>, 371))

\* the options download_diagram hands to getDiagramData (lines 334-339)
downloadOptions(args) ==
    [type         |-> args.type,
     content      |-> args.content,
     outputFormat |-> determinedFormat(args.outputFormat, args.outputPath),
     scale        |-> CoalesceNumber(args.scale, Num(1, 0))]

(***************************************************************************)
(* What the model draws from: the requests a client sends and the replies   *)
(* of kroki.io.                                                             *)
(***************************************************************************)
\* the scale argument is any number: the model draws 0.05 (below the declared
\* minimum), and 0.5, 1.0, ... in steps of one half
MaxScaleSteps == 4

ScaleValues ==
    {UndefinedNumber, Num(0, 50)} \cup {Number(500 * k) : k \in 1..MaxScaleSteps}

DiagramTypes == {"mermaid", "bogus"}

OutputFormats == {Undefined, "", "svg", "png", "base64", "gif"}

OutputPaths ==
    { <<"/", "tmp", "/", "out", ".", "svg">>,
      <<"/", "tmp", "/", "d", "/", "out", ".", "png">>,
      <<"/", "tmp", "/", "out", ".", "jpg">>,
      <<"/", "tmp", "/", "out", ".", "SVG">>,
      <<"out">> }

\* request.params.arguments
GenerateArgs ==
    [type : DiagramTypes, content : Contents, outputFormat : OutputFormats,
     outputPath : {<<>>}, scale : {UndefinedNumber}]

DownloadArgs ==
    [type : DiagramTypes, content : Contents, outputFormat : OutputFormats,
     outputPath : OutputPaths, scale : ScaleValues]

Requests ==
    {[name |-> "generate_diagram_url", arguments |-> a] : a \in GenerateArgs}
    \cup {[name |-> "download_diagram", arguments |-> a] : a \in DownloadArgs}
    \cup {[name |-> "no_such_tool", arguments |-> a] :
            a \in {x \in GenerateArgs : x.type = "mermaid" /\ x.outputFormat = Undefined}}

\* <svg width="100px" height="50px"><g/></svg>
SvgPlain ==
    <<"<", "s", "v", "g", " ", "w", "i", "d", "t", "h", "=", "\"", "1",
      "0", "0", "p", "x", "\"", " ", "h", "e", "i", "g", "h", "t", "=",
      "\"", "5", "0", "p", "x", "\"", ">", "<", "g", "/", ">", "<", "/",
      "s", "v", "g", ">">>

\* <svg width="12.5em"></svg>
SvgWidthEm ==
    <<"<", "s", "v", "g", " ", "w", "i", "d", "t", "h", "=", "\"", "1",
      "2", ".", "5", "e", "m", "\"", ">", "<", "/", "s", "v", "g", ">">>

\* <svg viewBox="0 0 9 9" height="50"></svg>
SvgHeightBare ==
    <<"<", "s", "v", "g", " ", "v", "i", "e", "w", "B", "o", "x", "=",
      "\"", "0", " ", "0", " ", "9", " ", "9", "\"", " ", "h", "e", "i",
      "g", "h", "t", "=", "\"", "5", "0", "\"", ">", "<", "/", "s", "v",
      "g", ">">>

\* <svg stroke-width="2" width="100px"></svg>
SvgStroke ==
    <<"<", "s", "v", "g", " ", "s", "t", "r", "o", "k", "e", "-", "w", "i",
      "d", "t", "h", "=", "\"", "2", "\"", " ", "w", "i", "d", "t", "h",
      "=", "\"", "1", "0", "0", "p", "x", "\"", ">", "<", "/", "s", "v",
      "g", ">">>

\* <svg width="100px"><text class="error">bad syntax</text></svg>
SvgError ==
    <<"<", "s", "v", "g", " ", "w", "i", "d", "t", "h", "=", "\"", "1",
      "0", "0", "p", "x", "\"", ">", "<", "t", "e", "x", "t", " ", "c",
      "l", "a", "s", "s", "=", "\"", "e", "r", "r", "o", "r", "\"", ">",
      "b", "a", "d", " ", "s", "y", "n", "t", "a", "x", "<", "/", "t", "e",
      "x", "t", ">", "<", "/", "s", "v", "g", ">">>

\* <svg><text x="1" FILL="red"> a &lt; b &amp;amp; c<br/>d </text></svg>
SvgRed ==
    <<"<", "s", "v", "g", ">", "<", "t", "e", "x", "t", " ", "x", "=",
      "\"", "1", "\"", " ", "F", "I", "L", "L", "=", "\"", "r", "e", "d",
      "\"", ">", " ", "a", " ", "&", "l", "t", ";", " ", "b", " ", "&",
      "a", "m", "p", ";", "a", "m", "p", ";", " ", "c", "<", "b", "r", "/",
      ">", "d", " ", "<", "/", "t", "e", "x", "t", ">", "<", "/", "s", "v",
      "g", ">">>

\* <svg><text class="error"></text><text fill="red">x</text></svg>
SvgEmptyError ==
    <<"<", "s", "v", "g", ">", "<", "t", "e", "x", "t", " ", "c", "l", "a",
      "s", "s", "=", "\"", "e", "r", "r", "o", "r", "\"", ">", "<", "/",
      "t", "e", "x", "t", ">", "<", "t", "e", "x", "t", " ", "f", "i", "l",
      "l", "=", "\"", "r", "e", "d", "\"", ">", "x", "<", "/", "t", "e",
      "x", "t", ">", "<", "/", "s", "v", "g", ">">>

\* \n <html><title> Error 400 </title><body><h1>Unable to decode</h1><pre>bad token\n</pre></body></html>
HtmlDecode ==
    <<"\n", " ", "<", "h", "t", "m", "l", ">", "<", "t", "i", "t", "l",
      "e", ">", " ", "E", "r", "r", "o", "r", " ", "4", "0", "0", " ", "<",
      "/", "t", "i", "t", "l", "e", ">", "<", "b", "o", "d", "y", ">", "<",
      "h", "1", ">", "U", "n", "a", "b", "l", "e", " ", "t", "o", " ", "d",
      "e", "c", "o", "d", "e", "<", "/", "h", "1", ">", "<", "p", "r", "e",
      ">", "b", "a", "d", " ", "t", "o", "k", "e", "n", "\n", "<", "/",
      "p", "r", "e", ">", "<", "/", "b", "o", "d", "y", ">", "<", "/", "h",
      "t", "m", "l", ">">>

\* <!DOCTYPE html><html><body><p>Not  found</p><text class="error">x</text></body></html>
HtmlOther ==
    <<"<", "!", "D", "O", "C", "T", "Y", "P", "E", " ", "h", "t", "m", "l",
      ">", "<", "h", "t", "m", "l", ">", "<", "b", "o", "d", "y", ">", "<",
      "p", ">", "N", "o", "t", " ", " ", "f", "o", "u", "n", "d", "<", "/",
      "p", ">", "<", "t", "e", "x", "t", " ", "c", "l", "a", "s", "s", "=",
      "\"", "e", "r", "r", "o", "r", "\"", ">", "x", "<", "/", "t", "e",
      "x", "t", ">", "<", "/", "b", "o", "d", "y", ">", "<", "/", "h", "t",
      "m", "l", ">">>

\* more documents kroki.io may answer with:
\*   widthAuto   <svg width="auto" height="50px"></svg>
\*   heightNone  <svg height="none"></svg>
\*   nested      <svg width="100px" stroke-width="2"><svg width="1px"/></svg>
SvgDocuments ==
    [widthAuto |->
        <<"<", "s", "v", "g", " ", "w", "i", "d", "t", "h", "=", "\"", "a", "u", "t",
          "o", "\"", " ", "h", "e", "i", "g", "h", "t", "=", "\"", "5", "0", "p", "x",
          "\"", ">", "<", "/", "s", "v", "g", ">">>,
     heightNone |->
        <<"<", "s", "v", "g", " ", "h", "e", "i", "g", "h", "t", "=", "\"", "n", "o",
          "n", "e", "\"", ">", "<", "/", "s", "v", "g", ">">>,
     nested |->
        <<"<", "s", "v", "g", " ", "w", "i", "d", "t", "h", "=", "\"", "1", "0", "0",
          "p", "x", "\"", " ", "s", "t", "r", "o", "k", "e", "-", "w", "i", "d", "t",
          "h", "=", "\"", "2", "\"", ">", "<", "s", "v", "g", " ", "w", "i", "d", "t",
          "h", "=", "\"", "1", "p", "x", "\"", "/", ">", "<", "/", "s", "v", "g", ">">>]

\* more pages kroki.io may answer with:
\*   upper           <HTML><body><p>Bad request</p></body></HTML>
\*   doctypeLower    <!doctype html><html><body><p>Bad request</p></body></html>
\*   noBody          <html><title> Gone </title></html>
\*   nothing         <html></html>
\*   phraseUpper     <html><body>UNABLE TO DECODE</body></html>
\*   blankPre        <html><body>unable to decode<pre> \n</pre></body></html>
\*   emptyPlain      <html><title>Gone</title><body><p> </p></body></html>
\*   almostLongBody  <html><title>T</title><body> 299 times e </body></html>
\*   longBody        <html><title>T</title><body> 300 times e </body></html>
ErrorPages ==
    [upper |->
        <<"<", "H", "T", "M", "L", ">", "<", "b", "o", "d", "y", ">", "<", "p", ">",
          "B", "a", "d", " ", "r", "e", "q", "u", "e", "s", "t", "<", "/", "p", ">",
          "<", "/", "b", "o", "d", "y", ">", "<", "/", "H", "T", "M", "L", ">">>,
     doctypeLower |->
        <<"<", "!", "d", "o", "c", "t", "y", "p", "e", " ", "h", "t", "m", "l", ">",
          "<", "h", "t", "m", "l", ">", "<", "b", "o", "d", "y", ">", "<", "p", ">",
          "B", "a", "d", " ", "r", "e", "q", "u", "e", "s", "t", "<", "/", "p", ">",
          "<", "/", "b", "o", "d", "y", ">", "<", "/", "h", "t", "m", "l", ">">>,
     noBody |->
        <<"<", "h", "t", "m", "l", ">", "<", "t", "i", "t", "l", "e", ">", " ", "G",
          "o", "n", "e", " ", "<", "/", "t", "i", "t", "l", "e", ">", "<", "/", "h",
          "t", "m", "l", ">">>,
     nothing |->
        <<"<", "h", "t", "m", "l", ">", "<", "/", "h", "t", "m", "l", ">">>,
     phraseUpper |->
        <<"<", "h", "t", "m", "l", ">", "<", "b", "o", "d", "y", ">", "U", "N", "A",
          "B", "L", "E", " ", "T", "O", " ", "D", "E", "C", "O", "D", "E", "<", "/",
          "b", "o", "d", "y", ">", "<", "/", "h", "t", "m", "l", ">">>,
     blankPre |->
        <<"<", "h", "t", "m", "l", ">", "<", "b", "o", "d", "y", ">", "u", "n", "a",
          "b", "l", "e", " ", "t", "o", " ", "d", "e", "c", "o", "d", "e", "<", "p",
          "r", "e", ">", " ", "\n", "<", "/", "p", "r", "e", ">", "<", "/", "b", "o",
          "d", "y", ">", "<", "/", "h", "t", "m", "l", ">">>,
     emptyPlain |->
        <<"<", "h", "t", "m", "l", ">", "<", "t", "i", "t", "l", "e", ">", "G", "o",
          "n", "e", "<", "/", "t", "i", "t", "l", "e", ">", "<", "b", "o", "d", "y",
          ">", "<", "p", ">", " ", "<", "/", "p", ">", "<", "/", "b", "o", "d", "y",
          ">", "<", "/", "h", "t", "m", "l", ">">>,
     almostLongBody |->
          <<"<", "h", "t", "m", "l", ">", "<", "t", "i", "t", "l", "e", ">", "T", "<",
            "/", "t", "i", "t", "l", "e", ">", "<", "b", "o", "d", "y", ">">>
          \o [k \in 1..299 |-> "e"]
          \o
          <<"<", "/", "b", "o", "d", "y", ">", "<", "/", "h", "t", "m", "l", ">">>,
     longBody |->
          <<"<", "h", "t", "m", "l", ">", "<", "t", "i", "t", "l", "e", ">", "T", "<",
            "/", "t", "i", "t", "l", "e", ">", "<", "b", "o", "d", "y", ">">>
          \o [k \in 1..300 |-> "e"]
          \o
          <<"<", "/", "b", "o", "d", "y", ">", "<", "/", "h", "t", "m", "l", ">">>]

\*  internal error\n
ErrorText ==
    <<" ", "i", "n", "t", "e", "r", "n", "a", "l", " ", "e", "r", "r", "o",
      "r", "\n">>

\* a body of white space only
BlankText == <<" ", "\n">>

\* a body of 499 characters, and one of 500
AlmostLongText == [k \in 1..499 |-> "e"]

LongText == [k \in 1..500 |-> "e"]

\* the first bytes of a PNG file; 0x89 is not valid UTF-8
PngBytes == <<"x89", "P", "N", "G", "\r", "\n">>

EmptyBody == <<>>

SvgContentType == <<"i", "m", "a", "g", "e", "/", "s", "v", "g", "+", "x", "m", "l">>

HtmlContentType == <<"T", "e", "x", "t", "/", "H", "T", "M", "L", ";", " ", "c", "h", "a",
  "r", "s", "e", "t", "=", "u", "t", "f", "-", "8">>

Headers ==
    { [h \in {"content-type"} |-> SvgContentType],
      [h \in {"content-type"} |-> HtmlContentType],
      [h \in {} |-> <<>>] }

SuccessBodies ==
    {SvgPlain, SvgWidthEm, SvgHeightBare, SvgStroke, SvgError, SvgRed, SvgEmptyError,
     HtmlDecode, HtmlOther, PngBytes, EmptyBody}

\* the responses of kroki.io: status, headers, data
Responses ==
    [status : {200}, headers : Headers, data : SuccessBodies]
    \cup [status : {299}, headers : {[h \in {} |-> <<>>]}, data : {SvgPlain}]
    \cup [status : {200}, headers : {[h \in {} |-> <<>>]},
          data : {ErrorPages[n] : n \in DOMAIN ErrorPages}
                 \cup {SvgDocuments[n] : n \in DOMAIN SvgDocuments}]
    \cup [status : {300, 400, 500}, headers : {[h \in {} |-> <<>>]},
          data : {ErrorText, EmptyBody}]
    \cup [status : {400, 500}, headers : {[h \in {} |-> <<>>]},
          data : {BlankText, AlmostLongText, LongText}]

\* how the GET settles: a response, or an axios error that has none
Replies ==
    {[responded |-> TRUE, response |-> r] : r \in Responses}
    \cup {[responded |-> FALSE, error |-> JsError(<<"connect ECONNREFUSED">>)]}

\* the errors of fs.mkdir and fs.writeFile
MkdirError(dir) == JsError(<<"EACCES: permission denied, mkdir '">> \o dir \o <<"'">>)

WriteFileError(path) == JsError(<<"EACCES: permission denied, open '">> \o path \o <<"'">>)

(***************************************************************************)
(* The state of one run of the handler.  pc is where it is suspended:       *)
(*   "called"     the request has arrived, nothing has run yet              *)
(*   "get"        in getDiagramData, awaiting axios.get (line 93)           *)
(*   "mkdir"      awaiting fs.mkdir (line 343)                              *)
(*   "writeFile"  awaiting fs.writeFile (line 346)                          *)
(*   "done"       the handler has returned or thrown: result                *)
(* requests is the list of the URLs it has sent a GET to, reply what the    *)
(* GET settled with, options the options of its getDiagramData call, data   *)
(* the bytes getDiagramData returned, fsDone the file system calls of this  *)
(* run that took effect.                                                    *)
(***************************************************************************)
Pending == [pending |-> TRUE]

NoReply == [responded |-> FALSE, error |-> JsError(<<"no reply yet">>)]

NoOptions == [type |-> "", content |-> "", outputFormat |-> "", scale |-> UndefinedNumber]

NewCall(request) ==
    [name     |-> request.name,
     args     |-> request.arguments,
     pc       |-> "called",
     requests |-> <<>>,
     reply    |-> NoReply,
     options  |-> NoOptions,
     data     |-> <<>>,
     fsDone   |-> <<>>,
     result   |-> Pending]

Finish(call, result) == [call EXCEPT !.pc = "done", !.result = result]

\* the handler suspended at the GET that getDiagramData sends for options
AwaitGet(call, options) ==
    [call EXCEPT !.pc = "get",
                 !.options = [options EXCEPT !.outputFormat = OrElse(@, "svg")],
                 !.requests = Append(@, getDiagramData_url(options))]

\* generate_diagram_url once generateDiagramUrl has validated: probe is the
\* options of its getDiagramData call, or the error
GenerateProbe(call, probe) ==
    IF probe.threw THEN Finish(call, generateCatch(probe.error))
    ELSE IF getDiagramData_validate(probe.value).threw
         THEN Finish(call, generateCatch(getDiagramData_validate(probe.value).error))
         ELSE AwaitGet(call, probe.value)

\* download_diagram at its getDiagramData call
DownloadFetch(call, options) ==
    IF getDiagramData_validate(options).threw
    THEN Finish(call, downloadCatch(getDiagramData_validate(options).error,
                                    call.args.outputPath))
    ELSE AwaitGet(call, options)

\* the handler from its start to its first await (or its end)
HandlerStart(call) ==
    IF call.name = "generate_diagram_url"
    THEN GenerateProbe(call, generateDiagramUrl_probe(
                                [type |-> call.args.type, content |-> call.args.content,
                                 outputFormat |-> call.args.outputFormat,
                                 scale |-> UndefinedNumber]))
    ELSE IF call.name = "download_diagram"
    THEN DownloadFetch(call, downloadOptions(call.args))
    ELSE Finish(call, unknownTool(call.name))

\* a faulty handler: when getDiagramData throws, the GET is sent again
AfterGetDiagramData_Retry(call, got) ==
    IF got.threw
    THEN [call EXCEPT !.pc = "get", !.requests = Append(@, @[Len(@)])]
    ELSE IF call.name = "generate_diagram_url"
         THEN Finish([call EXCEPT !.data = got.value.data],
                     generateResult(generateDiagramUrl_link(call.args)))
         ELSE [call EXCEPT !.pc = "mkdir", !.data = got.value.data]

\* the handler once getDiagramData has returned or thrown (got), up to its
\* next await (or its end)
AfterGetDiagramData(call, got) ==
    IF call.name = "generate_diagram_url"
    THEN IF got.threw THEN Finish(call, generateCatch(got.error))
         ELSE Finish([call EXCEPT !.data = got.value.data],
                     generateResult(generateDiagramUrl_link(call.args)))
    ELSE IF got.threw THEN Finish(call, downloadCatch(got.error, call.args.outputPath))
         ELSE [call EXCEPT !.pc = "mkdir", !.data = got.value.data]

\* a faulty handler: the options are kept on the server and read from the
\* call that came last
HandlerAfterGet_SharedOptions(call, reply) ==
    AfterGetDiagramData([call EXCEPT !.reply = reply],
                        getDiagramData_settle(calls[Len(calls)].options.outputFormat,
                                              calls[Len(calls)].options.scale, reply))

\* the handler from the settling of the GET to its next await (or its end)
HandlerAfterGet(call, reply) ==
    AfterGetDiagramData([call EXCEPT !.reply = reply],
                        getDiagramData_settle(call.options.outputFormat,
                                              call.options.scale, reply))

(***************************************************************************)
(* The actions                                                              *)
(***************************************************************************)
\* the runs of the handler, the numbers of the calls
Runs == {1}

Init ==
    /\ calls \in [Runs -> {NewCall(r) : r \in Requests}]
    /\ files = [p \in OutputPaths |-> NoFile]
    /\ dirs = {<<"/">>, <<".">>, <<"/", "tmp">>}

\* the server dispatches the request to the handler
CallTool(i) ==
    /\ calls[i].pc = "called"
    /\ calls' = [calls EXCEPT ![i] = HandlerStart(@)]
    /\ UNCHANGED <<files, dirs>>

\* kroki.io answers the GET
GetResponds(i) ==
    /\ calls[i].pc = "get"
    /\ \E reply \in {r \in Replies : r.responded} :
         calls' = [calls EXCEPT ![i] = HandlerAfterGet(@, reply)]
    /\ UNCHANGED <<files, dirs>>

\* the GET fails without a response
GetFails(i) ==
    /\ calls[i].pc = "get"
    /\ \E reply \in {r \in Replies : ~r.responded} :
         calls' = [calls EXCEPT ![i] = HandlerAfterGet(@, reply)]
    /\ UNCHANGED <<files, dirs>>

\* fs.mkdir(directory, {recursive: true}) succeeds; the handler calls writeFile
MkdirDone(i) ==
    LET directory == dirname(calls[i].args.outputPath)
    IN  /\ calls[i].pc = "mkdir"
        /\ dirs' = dirs \cup WithParents(directory)
        /\ calls' = [calls EXCEPT ![i].pc = "writeFile",
                                  ![i].fsDone = Append(@, <<"mkdir", directory>>)]
        /\ UNCHANGED files

\* fs.mkdir fails
MkdirFails(i) ==
    LET directory == dirname(calls[i].args.outputPath)
    IN  /\ calls[i].pc = "mkdir"
        /\ calls' = [calls EXCEPT ![i] =
                        Finish(@, downloadCatch(MkdirError(directory), @.args.outputPath))]
        /\ UNCHANGED <<files, dirs>>

\* fs.writeFile(outputPath, data) succeeds; the handler returns
WriteFileDone(i) ==
    LET outputPath == calls[i].args.outputPath
    IN  /\ calls[i].pc = "writeFile"
        /\ files' = [files EXCEPT ![outputPath] = File(calls[i].data)]
        /\ calls' = [calls EXCEPT ![i] =
                        Finish([@ EXCEPT !.fsDone = Append(@, <<"writeFile", outputPath>>)],
                               downloadResult(outputPath))]
        /\ UNCHANGED dirs

\* fs.writeFile fails, before it created the file or after
WriteFileFails(i) ==
    LET outputPath == calls[i].args.outputPath
    IN  /\ calls[i].pc = "writeFile"
        /\ \/ UNCHANGED files
           \/ files' = [files EXCEPT ![outputPath] = File(<<>>)]
        /\ calls' = [calls EXCEPT ![i] =
                        Finish(@, downloadCatch(WriteFileError(outputPath), outputPath))]
        /\ UNCHANGED dirs

Next ==
    \/ \E i \in DOMAIN calls : CallTool(i)
    \/ \E i \in DOMAIN calls : GetResponds(i)
    \/ \E i \in DOMAIN calls : GetFails(i)
    \/ \E i \in DOMAIN calls : MkdirDone(i)
    \/ \E i \in DOMAIN calls : MkdirFails(i)
    \/ \E i \in DOMAIN calls : WriteFileDone(i)
    \/ \E i \in DOMAIN calls : WriteFileFails(i)

Spec == Init /\ [][Next]_vars

\* two requests that the server dispatches before either has ended: a
\* download of an SVG with scale 2.0 to /tmp/out.svg, and with it a download
\* of a PNG to the same path or a generate_diagram_url for base64
InitTwo ==
    /\ calls \in
         { <<NewCall(a), NewCall(b)>> :
             a \in {r \in Requests :
                      /\ r.name = "download_diagram"
                      /\ r.arguments = [type |-> "mermaid", content |-> "graph TD; A-->D;",
                                        outputFormat |-> Undefined,
                                        outputPath |-> <<"/", "tmp", "/", "out", ".", "svg">>,
                                        scale |-> Num(2, 0)]},
             b \in {r \in Requests :
                      /\ r.arguments.type = "mermaid"
                      /\ r.arguments.content = "Bob->Alice: hello"
                      /\ r.arguments.scale = UndefinedNumber
                      /\ \/ /\ r.name = "download_diagram"
                            /\ r.arguments.outputFormat = "png"
                            /\ r.arguments.outputPath = <<"/", "tmp", "/", "out", ".", "svg">>
                         \/ /\ r.name = "generate_diagram_url"
                            /\ r.arguments.outputFormat = "base64"} }
    /\ files = [p \in OutputPaths |-> NoFile]
    /\ dirs = {<<"/">>, <<".">>, <<"/", "tmp">>}

SpecTwo == InitTwo /\ [][Next]_vars

(***************************************************************************)
(* The properties of the specification.  They are stated on the runs of the *)
(* handler: what was asked (name, args), what was sent (requests), what     *)
(* kroki.io replied (reply) and what came of it (result, data, fsDone,      *)
(* files, dirs).  What is expected is written out here from the             *)
(* specification's words, not taken from the operators above.               *)
(***************************************************************************)
\* the output formats the specification lists
SpecFormats == {"svg", "png", "pdf", "jpeg", "base64"}

\* the fixed set of diagram types
SpecTypes == {validTypes[k] : k \in DOMAIN validTypes}

IsGenerate(call) == call.name = "generate_diagram_url"

IsDownload(call) == call.name = "download_diagram"

IsOperation(call) == IsGenerate(call) \/ IsDownload(call)

\* the run has ended with a failure result
Failed(call) == call.pc = "done" /\ call.result.threw

\* the run has ended with a success result
Succeeded(call) == call.pc = "done" /\ ~call.result.threw

\* the extension of a path without its dot, "" when it has none
PathExtension(p) ==
    IF Len(p) >= 3 /\ p[Len(p) - 1] = "." /\ p[Len(p) - 2] # "/" THEN p[Len(p)] ELSE ""

\* the effective output format of a request: the explicit one when given and
\* not empty, else (for download-to-file) the extension of the path, else svg
RequestedFormat(call) ==
    IF call.args.outputFormat \notin {Undefined, ""} THEN call.args.outputFormat
    ELSE IF IsDownload(call) /\ PathExtension(call.args.outputPath) # ""
         THEN PathExtension(call.args.outputPath)
         ELSE "svg"

\* the request passes validation
ValidRequest(call) ==
    /\ IsOperation(call)
    /\ call.args.type \in SpecTypes
    /\ RequestedFormat(call) \in SpecFormats

\* the scale asked for is above 1.0
ScaleAboveOne(call) ==
    IsDownload(call) /\ call.args.scale.kind = "number" /\ call.args.scale.milli > 1000

\* the pipeline rewrites the bytes of this request
Scaled(call) == RequestedFormat(call) = "svg" /\ ScaleAboveOne(call)

\* the GET of the run has been answered with a response
Answered(call) == call.pc \notin {"called", "get"} /\ call.reply.responded

\* the response declares an HTML content type
DeclaresHtml(response) ==
    /\ "content-type" \in DOMAIN response.headers
    /\ response.headers["content-type"] = HtmlContentType

\* the bodies that start with an HTML opening tag or a DOCTYPE declaration
\* (all of them in the letter case the code looks for)
HtmlOpeningBodies ==
    {HtmlDecode, HtmlOther}
    \cup {ErrorPages[n] : n \in DOMAIN ErrorPages \ {"upper", "doctypeLower"}}

\* the bodies that hold a text element with class="error" or fill="red"
MarkerBodies == {SvgError, SvgRed, SvgEmptyError, HtmlOther}

\* the first matching rule of the ordered list of the classifier
ExpectedOutcome(response, format) ==
    IF ~(response.status >= 200 /\ response.status <= 299) THEN "TransportError"
    ELSE IF DeclaresHtml(response) \/ response.data \in HtmlOpeningBodies THEN "HtmlError"
    ELSE IF format \in {"svg", "base64"} /\ response.data \in MarkerBodies
         THEN "InlineImageError"
         ELSE "Success"

\* what the run made of the response: the throw statement names the kind of
\* the failure (196 the catch block for a response, 126 the HTML branch, 139
\* the inline marker branch); a run that went on to the file system, or that
\* returned, had a Success
ActualOutcome(call) ==
    IF call.pc \in {"mkdir", "writeFile"} \/ Succeeded(call) \/ call.fsDone # <<>>
    THEN "Success"
    ELSE IF call.result.error.thrownAt = 196 THEN "TransportError"
    ELSE IF call.result.error.thrownAt = 126 THEN "HtmlError"
    ELSE IF call.result.error.thrownAt = 139 THEN "InlineImageError"
    ELSE IF call.result.error.thrownAt = 363 THEN "Success"
    ELSE "Other"

\* the token of the Encoder for a content: the URL-safe base64 text of its
\* zlib stream
ExpectedToken(content) ==
    IF content = "graph TD; A-->D;"
    THEN
         <<"e", "J", "x", "L", "L", "0", "o", "s", "y", "F", "A", "I", "c", "b", "F",
           "W", "c", "N", "T", "V", "t", "X", "O", "x", "B", "g", "A", "r", "a", "A",
           "R", "-">>
    ELSE
         <<"e", "J", "x", "z", "y", "k", "_", "S", "t", "X", "P", "M", "y", "U", "x",
           "O", "t", "V", "L", "I", "S", "M", "3", "J", "y", "Q", "c", "A", "M", "a",
           "c", "F", "y", "w", "=", "=">>

\* the link string in a success result of generate-link
ReturnedLink(call) == Tail(call.result.value)

\* no file exists and no directory was made
NothingOnDisk ==
    /\ \A p \in OutputPaths : files[p] = NoFile
    /\ dirs = {<<"/">>, <<".">>, <<"/", "tmp">>}

\* C1: for both operations, a diagram type outside the fixed set or an
\* effective output format outside {svg, png, pdf, jpeg, base64} makes the
\* invocation fail with InvalidParams, and no outbound call is issued.
C1Theorem ==
    \A i \in Runs :
        (IsOperation(calls[i]) /\ calls[i].pc # "called" /\ ~ValidRequest(calls[i]))
        => /\ Failed(calls[i])
           /\ calls[i].result.error.code = "InvalidParams"
           /\ calls[i].requests = <<>>

\* a download whose format, derived from the extension .jpg, was rejected
C1Witness ==
    \E i \in Runs :
        /\ IsDownload(calls[i])
        /\ calls[i].args.type = "mermaid"
        /\ calls[i].args.outputFormat = Undefined
        /\ PathExtension(calls[i].args.outputPath) = "jpg"
        /\ Failed(calls[i])
        /\ calls[i].result.error.code = "InvalidParams"
        /\ calls[i].requests = <<>>

\* C2: in download-to-file the directory is made and the file written only
\* after validation, fetch and classification have succeeded; a run that ends
\* in a validation, transport, HTML or inline image error leaves no file and
\* no directory; a run that reports success has written the complete final
\* buffer to the given path.
C2Theorem ==
    \A i \in Runs :
        IsDownload(calls[i]) =>
            /\ (calls[i].pc \in {"mkdir", "writeFile"} \/ calls[i].fsDone # <<>>)
               => /\ ValidRequest(calls[i])
                  /\ calls[i].reply.responded
                  /\ ExpectedOutcome(calls[i].reply.response,
                                     RequestedFormat(calls[i])) = "Success"
            /\ (Failed(calls[i]) /\ ActualOutcome(calls[i]) # "Success")
               => (calls[i].fsDone = <<>> /\ NothingOnDisk)
            /\ Succeeded(calls[i])
               => /\ calls[i].fsDone = <<<<"mkdir", dirname(calls[i].args.outputPath)>>,
                                         <<"writeFile", calls[i].args.outputPath>>>>
                  /\ files[calls[i].args.outputPath] = File(calls[i].data)
                  /\ (~Scaled(calls[i]))
                     => calls[i].data = calls[i].reply.response.data

\* a download that reported success: the directory /tmp/d was made and the
\* PNG bytes are in the file
C2Witness ==
    \E i \in Runs :
        /\ IsDownload(calls[i])
        /\ Succeeded(calls[i])
        /\ calls[i].args.outputPath = <<"/", "tmp", "/", "d", "/", "out", ".", "png">>
        /\ <<"/", "tmp", "/", "d">> \in dirs
        /\ files[calls[i].args.outputPath] = File(PngBytes)

\* C3: generate-link returns a link if and only if the probe ended in
\* Success; the link is base/type/requestedFormat/token, the token is the
\* Encoder's output for the content and the one of the probe request.
C3Theorem ==
    \A i \in Runs :
        (IsGenerate(calls[i]) /\ calls[i].pc = "done") =>
            /\ Succeeded(calls[i])
               <=> /\ calls[i].reply.responded
                   /\ ExpectedOutcome(calls[i].reply.response,
                                      RequestedFormat(calls[i])) = "Success"
            /\ Succeeded(calls[i])
               => /\ ReturnedLink(calls[i])
                       = <<"https://kroki.io", "/", calls[i].args.type, "/",
                           RequestedFormat(calls[i]), "/">>
                         \o ExpectedToken(calls[i].args.content)
                  /\ Len(calls[i].requests) = 1
                  /\ UrlToken(calls[i].requests[1]) = UrlToken(ReturnedLink(calls[i]))

\* a link for png was returned, with a token that holds "_" and "="
C3Witness ==
    \E i \in Runs :
        /\ IsGenerate(calls[i])
        /\ Succeeded(calls[i])
        /\ calls[i].args.outputFormat = "png"
        /\ calls[i].args.content = "Bob->Alice: hello"
        /\ UrlToken(ReturnedLink(calls[i])) = ExpectedToken("Bob->Alice: hello")

\* C4: an invocation issues at most one GET, exactly one when validation
\* passes, and none again after a failed or error-classified response.
C4Theorem ==
    \A i \in Runs :
        /\ Len(calls[i].requests) <= 1
        /\ (calls[i].pc # "called" /\ ValidRequest(calls[i]))
           => Len(calls[i].requests) = 1

\* a run that ended after a response with status 500, with its one GET
C4Witness ==
    \E i \in Runs :
        /\ Failed(calls[i])
        /\ calls[i].reply.responded
        /\ calls[i].reply.response.status = 500
        /\ Len(calls[i].requests) = 1

\* C5: for both operations, with the effective format base64 the format
\* segment of the outbound request is svg, and the link returned still has
\* base64.
C5Claim ==
    \A i \in Runs :
        (IsOperation(calls[i]) /\ RequestedFormat(calls[i]) = "base64"
         /\ calls[i].requests # <<>>)
        => /\ UrlFormat(calls[i].requests[1]) = "svg"
           /\ (IsGenerate(calls[i]) /\ Succeeded(calls[i]))
              => UrlFormat(ReturnedLink(calls[i])) = "base64"

\* the body holds an inline error marker, the response is 2xx and not HTML,
\* and the format is svg or base64
InlineCase(call) ==
    /\ Answered(call)
    /\ call.reply.response.status >= 200 /\ call.reply.response.status <= 299
    /\ ~DeclaresHtml(call.reply.response)
    /\ call.reply.response.data \in {SvgError, SvgRed, SvgEmptyError}
    /\ RequestedFormat(call) \in {"svg", "base64"}

\* the text of the first marker element of a body, trimmed and decoded
MarkerText(body) ==
    IF body = SvgError THEN
         <<"b", "a", "d", " ", "s", "y", "n", "t", "a", "x">>
    ELSE IF body = SvgRed THEN
         <<"a", " ", "<", " ", "b", " ", "&", "a", "m", "p", ";", " ", "c", "\n", "d">>
    ELSE <<>>

\* the text an inline image error carries: what stands between the headline
\* and the closing advice of the failure message
InlineText(call) ==
    LET msg == call.result.error.message
        at  == {k \in 1..Len(msg) : msg[k] = "Diagram generation error (in SVG):\n"}
    IN  IF at = {} \/ msg[Len(msg)] # "\n\nCheck the diagram source."
        THEN <<"no inline image error">>
        ELSE Slice(msg, (CHOOSE k \in at : TRUE) + 1, Len(msg) - 1)

\* the run failed with an inline image error; no link, no file
InlineFailure(call) ==
    /\ Failed(call)
    /\ ActualOutcome(call) = "InlineImageError"
    /\ call.fsDone = <<>>
    /\ NothingOnDisk

\* C6 as stated: the message of the inline image error is always the text of
\* the marker element, trimmed and entity-decoded.
C6Original ==
    \A i \in Runs :
        InlineCase(calls[i])
        => /\ InlineFailure(calls[i])
           /\ InlineText(calls[i]) = MarkerText(calls[i].reply.response.data)

\* C6: for svg or base64, a 2xx non-HTML response with an inline error marker
\* never yields success; it fails with an inline image error whose message is
\* the marker element's text, trimmed and entity-decoded, or the fixed text
\* "Unknown diagram error" when the marker element has no text; no link is
\* returned and no file is written.
C6Theorem ==
    \A i \in Runs :
        InlineCase(calls[i])
        => /\ InlineFailure(calls[i])
           /\ InlineText(calls[i])
                = IF calls[i].reply.response.data = SvgEmptyError
                  THEN
                       <<"U", "n", "k", "n", "o", "w", "n", " ", "d", "i", "a", "g", "r", "a", "m",
                                  " ", "e", "r", "r", "o", "r">>
                  ELSE MarkerText(calls[i].reply.response.data)

\* a download as base64 whose response held a fill="red" marker with
\* entities, a line break and blanks around its text
C6Witness ==
    \E i \in Runs :
        /\ IsDownload(calls[i])
        /\ InlineCase(calls[i])
        /\ RequestedFormat(calls[i]) = "base64"
        /\ calls[i].reply.response.data = SvgRed
        /\ InlineText(calls[i]) = MarkerText(SvgRed)

C8Theorem ==
    \A i \in Runs :
        (Answered(calls[i]) /\ ActualOutcome(calls[i]) = "Success" /\ ~Scaled(calls[i]))
        => /\ calls[i].data = calls[i].reply.response.data
           /\ Succeeded(calls[i]) /\ IsDownload(calls[i])
              => files[calls[i].args.outputPath] = File(calls[i].reply.response.data)
           /\ IsGenerate(calls[i]) => NothingOnDisk

\* a download as base64 with scale 2.0 wrote the body as it came
C8Witness ==
    \E i \in Runs :
        /\ IsDownload(calls[i])
        /\ Succeeded(calls[i])
        /\ RequestedFormat(calls[i]) = "base64"
        /\ calls[i].args.scale = Num(2, 0)
        /\ files[calls[i].args.outputPath] = File(SvgPlain)

\* the width and height attributes on the first svg tag of a body: the
\* numeric part in thousandths and the unit
Absent == [present |-> FALSE]

Attr(milli, unit) == [present |-> TRUE, milli |-> milli, unit |-> unit]

TagAttributes(body) ==
    IF body = SvgPlain
    THEN [width |-> Attr(100000, <<"p", "x">>), height |-> Attr(50000, <<"p", "x">>)]
    ELSE IF body = SvgWidthEm
    THEN [width |-> Attr(12500, <<"e", "m">>), height |-> Absent]
    ELSE IF body = SvgHeightBare
    THEN [width |-> Absent, height |-> Attr(50000, <<>>)]
    ELSE [width |-> Attr(100000, <<"p", "x">>), height |-> Absent]

\* numeric part * scale with two decimal places (the products of the values
\* drawn here have no further decimals)
TimesScale(milli, scaleMilli) ==
    LET cents == (milli * scaleMilli) \div 10000
    IN  NatToChars(cents \div 100) \o <<".">>
        \o <<Digits[((cents % 100) \div 10) + 1], Digits[(cents % 10) + 1]>>

\* the attribute as the scaled document is to have it
ScaledAttribute(name, attr, scaleMilli) ==
    <<" ">> \o name \o <<"=", "\"">> \o TimesScale(attr.milli, scaleMilli)
    \o (IF attr.unit = <<>> THEN <<"p", "x">> ELSE attr.unit) \o <<"\"">>

\* the bytes hold the attribute scaled when it was present and no such
\* attribute when it was absent
AttributeScaled(data, name, attr, scaleMilli) ==
    IF attr.present
    THEN Includes(data, ScaledAttribute(name, attr, scaleMilli))
    ELSE ~Includes(data, <<" ">> \o name \o <<"=">>)

\* C9: with format svg and scale > 1.0, each of width and height present on
\* the first svg tag gets the value (numeric part * scale) with two decimal
\* places and the original unit (px when there is none); an absent attribute
\* stays absent.
C9Claim ==
    \A i \in Runs :
        (Answered(calls[i]) /\ ActualOutcome(calls[i]) = "Success" /\ Scaled(calls[i])
         /\ calls[i].reply.response.data \in {SvgPlain, SvgWidthEm, SvgHeightBare, SvgStroke})
        => /\ AttributeScaled(calls[i].data, <<"w", "i", "d", "t", "h">>,
                              TagAttributes(calls[i].reply.response.data).width,
                              calls[i].args.scale.milli)
           /\ AttributeScaled(calls[i].data, <<"h", "e", "i", "g", "h", "t">>,
                              TagAttributes(calls[i].reply.response.data).height,
                              calls[i].args.scale.milli)

\* the text that annotates a failure of download-to-file with the path
PathAnnotation == "Failed to download diagram to "

\* C10: every failure result of download-to-file, whatever its cause, carries
\* the target path in its message, and the annotation is there exactly once.
C10Theorem ==
    \A i \in Runs :
        (IsDownload(calls[i]) /\ Failed(calls[i]))
        => LET msg  == calls[i].result.error.message
               path == calls[i].args.outputPath
           IN  /\ msg[1] = PathAnnotation
               /\ Slice(msg, 2, 1 + Len(path)) = path
               /\ Cardinality({k \in 1..Len(msg) : msg[k] = PathAnnotation}) = 1

\* a download that failed with a network-level exception names /tmp/out.svg
C10Witness ==
    \E i \in Runs :
        /\ IsDownload(calls[i])
        /\ Failed(calls[i])
        /\ calls[i].requests # <<>>
        /\ ~calls[i].reply.responded
        /\ calls[i].args.outputPath = <<"/", "tmp", "/", "out", ".", "svg">>
        /\ Slice(calls[i].result.error.message, 1, 7)
             = <<PathAnnotation, "/", "tmp", "/", "out", ".", "svg">>

\* the message of the failure without the path annotation of download-to-file
OwnMessage(call) ==
    IF IsDownload(call)
    THEN Slice(call.result.error.message, Len(call.args.outputPath) + 3,
               Len(call.result.error.message))
    ELSE call.result.error.message

\* the GET of the run was answered with a status outside 2xx
TransportCase(call) ==
    /\ Answered(call)
    /\ ~(call.reply.response.status >= 200 /\ call.reply.response.status <= 299)

\* the text of an error body as the message shows it
BodySnippet(body) ==
    IF body = ErrorText
    THEN <<"i", "n", "t", "e", "r", "n", "a", "l", " ", "e", "r", "r", "o", "r">>
    ELSE IF body = BlankText THEN <<>>
    ELSE body

\* the message for a status, with the body's text when it is included
TransportMessage(status, included, snippet) ==
    IF status = 400
    THEN <<"The diagram source seems to have an error (Kroki HTTP 400).\n">>
         \o (IF included
             THEN <<"Details from Kroki:\n---\n">> \o snippet \o <<"\n---\n">>
             ELSE <<"Kroki gave no detail on where the error is.\n">>)
         \o <<"Check the diagram source.">>
    ELSE <<"Kroki API request failed (status: ", ToString(status), ")">>
         \o (IF included THEN <<"\nMessage from Kroki: ">> \o snippet ELSE <<>>)

\* the failure of a non-2xx response: the code for the status, and the
\* message with or without the text of the body
TransportFailure(call, included) ==
    /\ Failed(call)
    /\ call.result.error.code
         = (IF call.reply.response.status = 400 THEN "InvalidParams" ELSE "InternalError")
    /\ OwnMessage(call)
         = TransportMessage(call.reply.response.status, included,
                            BodySnippet(call.reply.response.data))

\* C11 as stated: the body is in the message exactly when it is non-empty and
\* shorter than 500 characters.
C11Original ==
    \A i \in Runs :
        TransportCase(calls[i])
        => TransportFailure(calls[i],
                            /\ calls[i].reply.response.data # <<>>
                            /\ Len(calls[i].reply.response.data) < 500)

\* C11: a non-2xx response makes the operation fail: status 400 with
\* InvalidParams and the tailored message, every other status with
\* InternalError and the generic message that carries the status; the decoded
\* body, trimmed, is in the message exactly when it is shorter than 500
\* characters and has a character that is not white space.
C11Theorem ==
    \A i \in Runs :
        TransportCase(calls[i])
        => TransportFailure(calls[i],
                            /\ BodySnippet(calls[i].reply.response.data) # <<>>
                            /\ Len(calls[i].reply.response.data) < 500)

\* a status 500 with a body of 500 characters: the generic message, without
\* the body
C11Witness ==
    \E i \in Runs :
        /\ TransportCase(calls[i])
        /\ calls[i].reply.response.status = 500
        /\ calls[i].reply.response.data = LongText
        /\ Failed(calls[i])
        /\ OwnMessage(calls[i]) = <<"Kroki API request failed (status: ", "500", ")">>

\* C12: in download-to-file the effective format is the explicit outputFormat
\* when given and not empty, otherwise the extension of the path without the
\* dot when it has one, otherwise svg; it is then validated against {svg, png,
\* pdf, jpeg, base64}, so a path with the extension .jpg or .SVG and no
\* explicit format fails validation.
C12Theorem ==
    \A i \in Runs :
        (IsDownload(calls[i]) /\ calls[i].pc # "called" /\ calls[i].args.type \in SpecTypes)
        => IF RequestedFormat(calls[i]) \in SpecFormats
           THEN /\ calls[i].options.outputFormat = RequestedFormat(calls[i])
                /\ Len(calls[i].requests) = 1
           ELSE /\ Failed(calls[i])
                /\ calls[i].result.error.code = "InvalidParams"
                /\ calls[i].result.error.thrownAt = 71
                /\ calls[i].requests = <<>>

\* a download to /tmp/out.SVG with the empty string as format failed
\* validation
C12Witness ==
    \E i \in Runs :
        /\ IsDownload(calls[i])
        /\ calls[i].args.outputFormat = ""
        /\ calls[i].args.outputPath = <<"/", "tmp", "/", "out", ".", "SVG">>
        /\ calls[i].args.type = "mermaid"
        /\ Failed(calls[i])
        /\ calls[i].result.error.thrownAt = 71

\* the format segment of the request a run sends: generate-link probes base64
\* as svg
ProbeFormat(call) ==
    IF IsGenerate(call) /\ RequestedFormat(call) = "base64" THEN "svg"
    ELSE RequestedFormat(call)

\* another download to the same path has come as far as writing the file
OverwrittenBy(i, j) ==
    /\ j # i
    /\ IsDownload(calls[j])
    /\ calls[j].args.outputPath = calls[i].args.outputPath
    /\ Len(calls[j].fsDone) >= 1

\* the run is as it would be alone with its request and its reply: the
\* request it sent, the outcome, the bytes, the result and the file are those
\* of its own arguments and its own response
AsAlone(i) ==
    /\ calls[i].pc # "called"
       => calls[i].requests
            = << <<"https://kroki.io", "/", calls[i].args.type, "/",
                   ProbeFormat(calls[i]), "/">>
                 \o ExpectedToken(calls[i].args.content) >>
    /\ Answered(calls[i])
       => /\ ActualOutcome(calls[i])
               = ExpectedOutcome(calls[i].reply.response, RequestedFormat(calls[i]))
          /\ (ActualOutcome(calls[i]) = "Success" /\ ~Scaled(calls[i]))
             => calls[i].data = calls[i].reply.response.data
          /\ (ActualOutcome(calls[i]) = "Success" /\ Scaled(calls[i])
              /\ calls[i].reply.response.data = SvgPlain)
             => Includes(calls[i].data,
                         ScaledAttribute(<<"w", "i", "d", "t", "h">>,
                                         Attr(100000, <<"p", "x">>),
                                         calls[i].args.scale.milli))
    /\ (IsGenerate(calls[i]) /\ Succeeded(calls[i]))
       => ReturnedLink(calls[i])
            = <<"https://kroki.io", "/", calls[i].args.type, "/",
                RequestedFormat(calls[i]), "/">>
              \o ExpectedToken(calls[i].args.content)
    /\ (IsDownload(calls[i]) /\ Failed(calls[i]))
       => /\ calls[i].result.error.message[1] = PathAnnotation
          /\ Slice(calls[i].result.error.message, 2, 1 + Len(calls[i].args.outputPath))
               = calls[i].args.outputPath
    /\ (IsDownload(calls[i]) /\ Succeeded(calls[i]))
       => /\ calls[i].result.value = <<"Diagram saved to ">> \o calls[i].args.outputPath
          /\ \/ files[calls[i].args.outputPath] = File(calls[i].data)
             \/ \E j \in DOMAIN calls : OverwrittenBy(i, j)

\* C13: invocations are independent under any interleaving: with two
\* invocations suspended at their fetch at once, the result of each (success
\* value, failure kind and message, bytes written) is what it is alone with
\* the same input and the same response.
C13Theorem == \A i \in DOMAIN calls : AsAlone(i)

\* both requests were sent before either was answered, the scaled download
\* then wrote its file while the generate-link was still suspended at its
\* fetch
C13Witness ==
    /\ DOMAIN calls = {1, 2}
    /\ Succeeded(calls[1])
    /\ files[calls[1].args.outputPath] = File(calls[1].data)
    /\ Scaled(calls[1])
    /\ IsGenerate(calls[2])
    /\ calls[2].pc = "get"
    /\ Len(calls[2].requests) = 1

\* the response has a 2xx status
Is2xx(response) == response.status >= 200 /\ response.status <= 299

\* the bodies that start with an HTML opening tag or a DOCTYPE declaration
\* in any letter case
AnyCaseOpeningBodies == HtmlOpeningBodies \cup {ErrorPages.upper, ErrorPages.doctypeLower}

\* C14: a 2xx response is an HtmlError when its content type has an HTML
\* marker or when its body, after leading white space, starts with an HTML
\* opening tag in any letter case, with or without a DOCTYPE declaration
\* before it: bodies that start with <html, <HTML, <!DOCTYPE html or
\* <!doctype html are HtmlError also when the content type is not HTML.
C14Claim ==
    \A i \in Runs :
        (/\ Answered(calls[i])
         /\ Is2xx(calls[i].reply.response)
         /\ \/ DeclaresHtml(calls[i].reply.response)
            \/ calls[i].reply.response.data \in AnyCaseOpeningBodies)
        => ActualOutcome(calls[i]) = "HtmlError"

\* what an HTML page holds: its title text, whether it has a body, whether
\* the body has the phrase, the preformatted block as it stands and without
\* the white space around it, and the body without tags, white space collapsed
PageFacts(hasTitle, title, hasBody, phrase, hasPre, pre, preText, plain) ==
    [hasTitle |-> hasTitle, title |-> title, hasBody |-> hasBody, phrase |-> phrase,
     hasPre |-> hasPre, pre |-> pre, preText |-> preText, plain |-> plain]

NoPage == PageFacts(FALSE, <<>>, FALSE, FALSE, FALSE, <<>>, <<>>, <<>>)

FactsOf(body) ==
    IF body = HtmlDecode THEN
        PageFacts(TRUE, <<"E", "r", "r", "o", "r", " ", "4", "0", "0">>, TRUE, TRUE, TRUE,
                  <<"b", "a", "d", " ", "t", "o", "k", "e", "n", "\n">>,
                  <<"b", "a", "d", " ", "t", "o", "k", "e", "n">>, <<>>)
    ELSE IF body = HtmlOther THEN
        PageFacts(FALSE, <<>>, TRUE, FALSE, FALSE, <<>>, <<>>,
                  <<"N", "o", "t", " ", "f", "o", "u", "n", "d", " ", "x">>)
    ELSE IF body = ErrorPages.noBody THEN
        PageFacts(TRUE, <<"G", "o", "n", "e">>, FALSE, FALSE, FALSE, <<>>, <<>>, <<>>)
    ELSE IF body = ErrorPages.phraseUpper THEN
        PageFacts(FALSE, <<>>, TRUE, TRUE, FALSE, <<>>, <<>>, <<>>)
    ELSE IF body = ErrorPages.blankPre THEN
        PageFacts(FALSE, <<>>, TRUE, TRUE, TRUE, <<" ", "\n">>, <<>>, <<>>)
    ELSE IF body = ErrorPages.emptyPlain THEN
        PageFacts(TRUE, <<"G", "o", "n", "e">>, TRUE, FALSE, FALSE, <<>>, <<>>, <<>>)
    ELSE IF body = ErrorPages.almostLongBody THEN
        PageFacts(TRUE, <<"T">>, TRUE, FALSE, FALSE, <<>>, <<>>, [k \in 1..299 |-> "e"])
    ELSE IF body = ErrorPages.longBody THEN
        PageFacts(TRUE, <<"T">>, TRUE, FALSE, FALSE, <<>>, <<>>, [k \in 1..300 |-> "e"])
    ELSE NoPage

\* the headline when the body has no phrase
TitleHeadline(f) ==
    IF f.hasTitle THEN f.title ELSE <<"Unknown error (HTML response)">>

\* the diagnostic of an HTML page, with or without its preformatted block
Diagnostic(f, preIncluded) ==
    IF f.hasBody /\ f.phrase
    THEN <<"Decode error: Kroki could not decode the source. Check the notation and the content.">>
         \o (IF preIncluded THEN <<"\nDetails:\n---\n">> \o f.preText \o <<"\n---">> ELSE <<>>)
    ELSE TitleHeadline(f)
         \o (IF f.hasBody /\ Len(f.plain) > 0 /\ Len(f.plain) < 300
             THEN <<" (content: ">> \o f.plain \o <<"...)">>
             ELSE <<>>)

\* the response is an HtmlError: 2xx, with an HTML content type or a body
\* that starts with <html or <!DOCTYPE html
HtmlCase(call) ==
    /\ Answered(call)
    /\ Is2xx(call.reply.response)
    /\ \/ DeclaresHtml(call.reply.response)
       \/ call.reply.response.data \in HtmlOpeningBodies

\* the run failed with the diagnostic of the page, thrown by the HTML branch
\* itself and not by a failure of the extraction
HtmlFailure(call, diagnostic) ==
    /\ Failed(call)
    /\ call.result.error.thrownAt = 126
    /\ call.result.error.code = "InvalidParams"
    /\ OwnMessage(call) = <<"Kroki error: ">> \o diagnostic

\* C15 as stated: the preformatted block is appended whenever it is present
\* and not the empty text.
C15Original ==
    \A i \in Runs :
        HtmlCase(calls[i])
        => HtmlFailure(calls[i],
                       Diagnostic(FactsOf(calls[i].reply.response.data),
                                  /\ FactsOf(calls[i].reply.response.data).hasPre
                                  /\ FactsOf(calls[i].reply.response.data).pre # <<>>))

\* C15: for an HtmlError response the diagnostic is built without the
\* extraction failing, whatever the page holds: when the body has the phrase
\* "unable to decode" in any letter case, the headline is the fixed decode
\* notice, and the preformatted block, without the white space around it, is
\* appended under a details label when it is present and has a character that
\* is not white space; otherwise the headline is the title text, or the
\* generic unknown-error headline when there is no title, and the body without
\* tags, white space collapsed, is appended exactly when its length is above 0
\* and below 300.
C15Theorem ==
    \A i \in Runs :
        HtmlCase(calls[i])
        => HtmlFailure(calls[i],
                       Diagnostic(FactsOf(calls[i].reply.response.data),
                                  /\ FactsOf(calls[i].reply.response.data).hasPre
                                  /\ FactsOf(calls[i].reply.response.data).preText # <<>>))

\* a page with a title and a body of 299 characters: the body is appended
C15Witness ==
    \E i \in Runs :
        /\ HtmlCase(calls[i])
        /\ calls[i].reply.response.data = ErrorPages.almostLongBody
        /\ Failed(calls[i])
        /\ OwnMessage(calls[i])
             = <<"Kroki error: ", "T", " (content: ">> \o [k \in 1..299 |-> "e"] \o <<"...)">>

\* a body cut at the values of the width and height attributes of its first
\* svg tag: the texts before, between and after the values; a body without
\* such attributes is one text
Frame(body) ==
    IF body = SvgPlain THEN
        <<<<"<", "s", "v", "g", " ", "w", "i", "d", "t", "h", "=", "\"">>,
          <<"\"", " ", "h", "e", "i", "g", "h", "t", "=", "\"">>,
          <<"\"", ">", "<", "g", "/", ">", "<", "/", "s", "v", "g", ">">>>>
    ELSE IF body = SvgWidthEm THEN
        <<<<"<", "s", "v", "g", " ", "w", "i", "d", "t", "h", "=", "\"">>,
          <<"\"", ">", "<", "/", "s", "v", "g", ">">>>>
    ELSE IF body = SvgHeightBare THEN
        <<<<"<", "s", "v", "g", " ", "v", "i", "e", "w", "B", "o", "x", "=", "\"", "0",
            " ", "0", " ", "9", " ", "9", "\"", " ", "h", "e", "i", "g", "h", "t", "=",
            "\"">>,
          <<"\"", ">", "<", "/", "s", "v", "g", ">">>>>
    ELSE IF body = SvgStroke THEN
        <<<<"<", "s", "v", "g", " ", "s", "t", "r", "o", "k", "e", "-", "w", "i", "d",
            "t", "h", "=", "\"", "2", "\"", " ", "w", "i", "d", "t", "h", "=", "\"">>,
          <<"\"", ">", "<", "/", "s", "v", "g", ">">>>>
    ELSE IF body = SvgDocuments.widthAuto THEN
        <<<<"<", "s", "v", "g", " ", "w", "i", "d", "t", "h", "=", "\"">>,
          <<"\"", " ", "h", "e", "i", "g", "h", "t", "=", "\"">>,
          <<"\"", ">", "<", "/", "s", "v", "g", ">">>>>
    ELSE IF body = SvgDocuments.heightNone THEN
        <<<<"<", "s", "v", "g", " ", "h", "e", "i", "g", "h", "t", "=", "\"">>,
          <<"\"", ">", "<", "/", "s", "v", "g", ">">>>>
    ELSE IF body = SvgDocuments.nested THEN
        <<<<"<", "s", "v", "g", " ", "w", "i", "d", "t", "h", "=", "\"">>,
          <<"\"", " ", "s", "t", "r", "o", "k", "e", "-", "w", "i", "d", "t", "h", "=",
            "\"", "2", "\"", ">", "<", "s", "v", "g", " ", "w", "i", "d", "t", "h", "=",
            "\"", "1", "p", "x", "\"", "/", ">", "<", "/", "s", "v", "g", ">">>>>
    ELSE <<body>>

\* the text is the parts in their order with a value, a text without a double
\* quote, in every gap between two parts
RECURSIVE FitsFrame(_, _)
FitsFrame(text, parts) ==
    IF Len(parts) = 1 THEN text = parts[1]
    ELSE /\ StartsWith(text, parts[1])
         /\ \E q \in (Len(parts[1]) + 1)..Len(text) :
               /\ text[q] = "\""
               /\ \A k \in (Len(parts[1]) + 1)..(q - 1) : text[k] # "\""
               /\ FitsFrame(Slice(text, q, Len(text)), Tail(parts))

\* the run got a Success and the scale step was applied to its bytes
ScaleCase(call) ==
    /\ Answered(call)
    /\ ActualOutcome(call) = "Success"
    /\ Scaled(call)

\* C16: when scaling is applied (format svg, scale > 1.0), only the values of
\* the width and height attributes of the first svg tag change: every other
\* attribute of that tag, also one whose name ends in width or height, such
\* as stroke-width, before or after the real attribute, and every later svg
\* tag and all the rest of the document are the same in the output and the
\* input (for a body that is text).
C16Claim ==
    \A i \in Runs :
        (ScaleCase(calls[i]) /\ calls[i].reply.response.data # PngBytes)
        => FitsFrame(calls[i].data, Frame(calls[i].reply.response.data))

\* the bodies whose first svg tag has a width or a height that is no number
UnparseableBodies == {SvgDocuments.widthAuto, SvgDocuments.heightNone}

\* C17: when scaling is applied (format svg, scale > 1.0) and the width or the
\* height of the first svg tag cannot be parsed as a number, the scale step
\* does not fail the operation and does not rewrite a part of the document:
\* the bytes returned are the original bytes, also when the other of the two
\* attributes is well-formed.
C17Claim ==
    \A i \in Runs :
        (/\ Answered(calls[i])
         /\ Is2xx(calls[i].reply.response)
         /\ Scaled(calls[i])
         /\ calls[i].reply.response.data \in UnparseableBodies)
        => /\ ActualOutcome(calls[i]) = "Success"
           /\ calls[i].data = calls[i].reply.response.data

=============================================================================
